---- MODULE Spec2Model ----
(***************************************************************************)
(* Model of src/main.py: the pattern editor's board link.                  *)
(*                                                                         *)
(*   ModbusController.write_pattern_data   one register write per step     *)
(*   MainWindow.connect_board / save_to_board / run_board / closeEvent     *)
(*                                                                         *)
(* The window's handlers run on the single GUI thread: a handler that has  *)
(* started a transfer blocks the event loop until write_pattern_data       *)
(* returns or raises, and button clicks made meanwhile wait in the event   *)
(* queue.  Spec is the application (clicks on the window's buttons);       *)
(* SpecCtl drives ModbusController.write_pattern_data directly with        *)
(* arbitrary slots and patterns, ragged ones included.                     *)
(***************************************************************************)
EXTENDS Integers, Sequences, FiniteSets, TLC

----------------------------------------------------------------------------
(* Program constants *)

LOCATION_REGISTER == 0
ROW_COUNT_REGISTER == 1
base_address == 2
RUN_TRIGGER_REGISTER == 1000
HEADER_SETTLE_MS == 100
DATA_SETTLE_MS == 10
NumColumns == 19
SAVE_NUMBER_FIRST == 1
SAVE_NUMBER_LAST == 4
RUN_LOCATION == 0
PATTERN_NUMBER_REGISTER == 8192
RUN_COMMAND_REGISTER == 8193
None == 0

ConnectText == "connect"
DisconnectText == "disconnect"

----------------------------------------------------------------------------
(* Bounds of the model *)

MaxRows == 3
MaxWidth == 3
MaxSlot == 5
AppMaxRows == 1
MaxQueued == 1
MaxHandles == 2
MaxPatternNumber == 5

\* Rows of a NumColumns-wide grid whose last row reaches past the run trigger.
LongRows == ((RUN_TRIGGER_REGISTER - base_address) \div NumColumns) + 1

----------------------------------------------------------------------------
(* Inputs *)

Fills == {0, 1}

\* A cell value that differs from cell to cell (fill 0 counts up from 2,
\* fill 1 counts down from 65535).
Cell(fill, r, c) == IF fill = 0 THEN 100 * r + c + 2 ELSE 65535 - (100 * r + c)

Shapes == UNION {[1..n -> 0..MaxWidth] : n \in 0..MaxRows}

MkPattern(shape, fill) ==
    [r \in 1..Len(shape) |-> [c \in 1..shape[r] |-> Cell(fill, r - 1, c - 1)]]

UniformShape(R, W) == [r \in 1..R |-> W]

\* pattern_data handed to write_pattern_data by a direct caller
\* One row whose cells lie at and beyond the ends of the 16-bit range.
WidePattern == <<<<65535, 65536, -1>>>>

CtlPatterns ==
    {MkPattern(s, f) : s \in Shapes, f \in Fills}
        \cup {MkPattern(UniformShape(LongRows, NumColumns), 0)}
        \cup {WidePattern}

CtlSlots == 0..MaxSlot

\* self.df: rows of NumColumns raw cells: an integer, '' (a row added in the
\* editor) or a value int() rejects.
IntCell(v) == [k |-> "int", v |-> v]
EmptyCell == [k |-> "empty", v |-> 0]
BadCell == [k |-> "bad", v |-> 0]

GridKinds == {"ints", "blank", "bad"}

MkGrid(R, kind) ==
    [r \in 1..R |-> [c \in 1..NumColumns |->
        CASE kind = "ints" -> IntCell(Cell(0, r - 1, c - 1))
          [] kind = "blank" -> IF c = 1 THEN IntCell(Cell(1, r - 1, 0)) ELSE EmptyCell
          [] OTHER -> IF c = NumColumns THEN BadCell ELSE IntCell(Cell(0, r - 1, c - 1))]]

AppGrids == {MkGrid(R, k) : R \in 0..AppMaxRows, k \in GridKinds}

----------------------------------------------------------------------------
VARIABLES
    button_text,        \* connect_board_button.text()
    serial_port,        \* self.serial_port: None or a handle
    modbus_controller,  \* self.modbus_controller: None or the handle its instrument owns
    open_handles,       \* the serial handles that are open
    next_handle,        \* the next handle a ModbusController's instrument opens
    close_calls,        \* per handle, the close() calls made on it
    closed,             \* the window was closed
    queued,             \* button clicks waiting in the event queue
    caller,             \* who called write_pattern_data: "save", "run", "api", "none"
    deferred,           \* the running/last request was clicked during a transfer
    save_location,      \* write_pattern_data's arguments
    pattern_data,
    pattern_number,     \* start_pattern's argument
    phase,              \* position in write_pattern_data
    row_idx,
    col_idx,
    wire,               \* the register writes the latest request issued
    result              \* what the latest request reported

vars == <<button_text, serial_port, modbus_controller, open_handles, next_handle, close_calls,
          closed, queued, caller, deferred, save_location, pattern_data,
          pattern_number, phase,
          row_idx, col_idx, wire, result>>

conn == <<button_text, serial_port, modbus_controller, open_handles, next_handle,
          close_calls, closed>>
xfer == <<caller, deferred, save_location, pattern_data, pattern_number, phase, row_idx, col_idx, wire, result>>

WritePhases == {"loc", "rows", "data", "trig"}

\* write_pattern_data is running
Busy == phase \in WritePhases

----------------------------------------------------------------------------
(* ModbusController.write_pattern_data *)

\* for row_idx, row in enumerate(pattern_data): the row the loop is in
row == pattern_data[row_idx + 1]

\* Variant: the row stride is left out of the address.
register_address_no_stride == base_address + row_idx + col_idx

\* register_address = base_address + (row_idx * len(row)) + col_idx
register_address == base_address + (row_idx * Len(row)) + col_idx

\* if save_location == 0: the run trigger follows the data
TriggersRun == save_location = 0

\* Variant: no sleep after a data write.
NextWriteNoDataSleep ==
    CASE phase = "loc" ->
            [addr |-> LOCATION_REGISTER, val |-> save_location, delay |-> HEADER_SETTLE_MS]
      [] phase = "rows" ->
            [addr |-> ROW_COUNT_REGISTER, val |-> Len(pattern_data), delay |-> HEADER_SETTLE_MS]
      [] phase = "data" ->
            [addr |-> register_address, val |-> row[col_idx + 1], delay |-> 0]
      [] OTHER ->
            [addr |-> RUN_TRIGGER_REGISTER, val |-> 1, delay |-> 0]

\* The register write the code is about to issue, and the sleep that follows it.
NextWrite ==
    CASE phase = "loc" ->
            [addr |-> LOCATION_REGISTER, val |-> save_location, delay |-> HEADER_SETTLE_MS]
      [] phase = "rows" ->
            [addr |-> ROW_COUNT_REGISTER, val |-> Len(pattern_data), delay |-> HEADER_SETTLE_MS]
      [] phase = "data" ->
            [addr |-> register_address, val |-> row[col_idx + 1], delay |-> DATA_SETTLE_MS]
      [] OTHER ->
            [addr |-> RUN_TRIGGER_REGISTER, val |-> 1, delay |-> 0]

\* One entry of the wire log: the write, whether write_register returned, and
\* the sleep the code took after it (none when write_register raised).
Issued(w, ok) ==
    [addr |-> w.addr, val |-> w.val, ok |-> ok, delay |-> IF ok THEN w.delay ELSE 0]

\* The inner loop runs no iteration for an empty row: the first row at or
\* after r that has a cell, or len(pattern_data).
RECURSIVE SkipEmpty(_, _)
SkipEmpty(p, r) ==
    IF r >= Len(p) THEN Len(p)
    ELSE IF Len(p[r + 1]) > 0 THEN r
    ELSE SkipEmpty(p, r + 1)

Goto(ph, r, c) == phase' = ph /\ row_idx' = r /\ col_idx' = c

\* return True, and the caller's status line
ReturnTrue == Goto("done", 0, 0) /\ result' = "ok"

\* The loops are over: the run trigger for location 0, else return.
AfterData ==
    IF TriggersRun
    THEN Goto("trig", 0, 0) /\ result' = result
    ELSE ReturnTrue

\* Continue the outer loop at row r.
EnterRow(r) ==
    LET n == SkipEmpty(pattern_data, r) IN
    IF n < Len(pattern_data)
    THEN Goto("data", n, 0) /\ result' = result
    ELSE AfterData

\* Where the code goes once the write at the current position has returned.
Advance ==
    CASE phase = "loc" -> Goto("rows", 0, 0) /\ result' = result
      [] phase = "rows" -> EnterRow(0)
      [] phase = "data" ->
            IF col_idx + 1 < Len(row)
            THEN Goto("data", row_idx, col_idx + 1) /\ result' = result
            ELSE EnterRow(row_idx + 1)
      [] OTHER -> ReturnTrue

\* Variant: the failed write is tried again.
OnWriteErrorRetry ==
    /\ Goto(phase, row_idx, col_idx)
    /\ result' = result
    /\ UNCHANGED conn

\* Variant: the error handler drops the controller.
OnWriteErrorDropsLink ==
    /\ Goto("failed", 0, 0)
    /\ result' = "error"
    /\ modbus_controller' = None
    /\ UNCHANGED <<button_text, serial_port, open_handles, next_handle, close_calls, closed>>

\* except Exception: raise Exception(...); the caller's except reports it.
\* Nothing else changes: no retry, no further write, no change of the
\* connection.
OnWriteError ==
    /\ Goto("failed", 0, 0)
    /\ result' = "error"
    /\ UNCHANGED conn

\* write_register returned.
WriteOk ==
    /\ Busy
    /\ wire' = Append(wire, Issued(NextWrite, TRUE))
    /\ Advance
    /\ UNCHANGED <<conn, queued, caller, deferred, save_location, pattern_data, pattern_number>>

\* write_register raised (timeout, no answer, bad answer, port error).
WriteFail ==
    /\ Busy
    /\ wire' = Append(wire, Issued(NextWrite, FALSE))
    /\ OnWriteError
    /\ UNCHANGED <<queued, caller, deferred, save_location, pattern_data, pattern_number>>

\* write_pattern_data(slot, pat) is entered.
BeginTransfer(who, dfr, slot, pat) ==
    /\ caller' = who
    /\ deferred' = dfr
    /\ save_location' = slot
    /\ pattern_data' = pat
    /\ pattern_number' = 0
    /\ Goto("loc", 0, 0)
    /\ wire' = << >>
    /\ result' = "pending"

\* A request that ends before write_pattern_data is called.
EndWithout(who, dfr, res) ==
    /\ caller' = who
    /\ deferred' = dfr
    /\ save_location' = 0
    /\ pattern_data' = << >>
    /\ pattern_number' = 0
    /\ Goto("none", 0, 0)
    /\ wire' = << >>
    /\ result' = res

----------------------------------------------------------------------------
(* The event loop *)

ClickKinds == {"connect_board", "save_to_board", "run_board", "close"}

\* A click is posted to the event queue at any time, also while a handler is
\* blocking the GUI thread.
Click ==
    /\ ~closed
    /\ Len(queued) < MaxQueued
    /\ \E k \in ClickKinds : queued' = Append(queued, [kind |-> k, busy |-> Busy])
    /\ UNCHANGED <<conn, xfer>>

\* Variant: events are processed while a handler is still running.
HandlerReentrant == TRUE

\* The event loop has control: no handler is running.
HandlerIdle == ~Busy

\* The event loop hands the oldest click to its handler.
Dispatch(k) ==
    /\ ~closed
    /\ HandlerIdle
    /\ queued # << >>
    /\ Head(queued).kind = k
    /\ queued' = Tail(queued)

----------------------------------------------------------------------------
(* MainWindow.connect_board, closeEvent *)

\* Variant: is_open is not looked at.
PortIsOpenUnchecked == serial_port # None

\* self.serial_port and self.serial_port.is_open
PortIsOpen == serial_port # None /\ serial_port \in open_handles

\* The close() calls after one more on the window's port.
CloseCalled == [close_calls EXCEPT ![serial_port] = @ + 1]

\* if self.serial_port and self.serial_port.is_open: self.serial_port.close()
ClosePrior == open_handles \ {serial_port}

\* The dialog is rejected, or no port is selected.
ConnectCancel ==
    /\ Dispatch("connect_board")
    /\ button_text = ConnectText
    /\ UNCHANGED <<conn, xfer>>

\* ModbusController(selected_port) opens the port.
ConnectOk ==
    /\ Dispatch("connect_board")
    /\ button_text = ConnectText
    /\ next_handle <= MaxHandles
    /\ open_handles' = ClosePrior \cup {next_handle}
    /\ modbus_controller' = next_handle
    /\ serial_port' = next_handle
    /\ next_handle' = next_handle + 1
    /\ close_calls' = Append(IF PortIsOpen THEN CloseCalled ELSE close_calls, 0)
    /\ button_text' = DisconnectText
    /\ UNCHANGED <<closed, xfer>>

\* The port cannot be opened: except Exception.
ConnectFail ==
    /\ Dispatch("connect_board")
    /\ button_text = ConnectText
    /\ open_handles' = ClosePrior
    /\ serial_port' = None
    /\ modbus_controller' = None
    /\ close_calls' = IF PortIsOpen THEN CloseCalled ELSE close_calls
    /\ UNCHANGED <<button_text, next_handle, closed, xfer>>

\* Variant: the else branch leaves the controller in place.
DisconnectKeepsController == modbus_controller

\* The button reads "disconnect": the else branch sets
\* self.modbus_controller = None.
DisconnectController == None

\* Variant: the else branch forgets the port instead of closing it.
DisconnectDropsPort ==
    /\ Dispatch("connect_board")
    /\ button_text # ConnectText
    /\ serial_port' = None
    /\ modbus_controller' = DisconnectController
    /\ button_text' = ConnectText
    /\ UNCHANGED <<open_handles, close_calls, next_handle, closed, xfer>>

\* if self.serial_port: self.serial_port.close()
Disconnect ==
    /\ Dispatch("connect_board")
    /\ button_text # ConnectText
    /\ open_handles' = open_handles \ {serial_port}
    /\ close_calls' = IF serial_port # None THEN CloseCalled ELSE close_calls
    /\ modbus_controller' = DisconnectController
    /\ button_text' = ConnectText
    /\ UNCHANGED <<serial_port, next_handle, closed, xfer>>

connect_board == ConnectCancel \/ ConnectOk \/ ConnectFail \/ Disconnect

closeEvent ==
    /\ Dispatch("close")
    /\ open_handles' = open_handles \ {serial_port}
    /\ close_calls' = IF PortIsOpen THEN CloseCalled ELSE close_calls
    /\ closed' = TRUE
    /\ UNCHANGED <<button_text, serial_port, modbus_controller, next_handle, xfer>>

----------------------------------------------------------------------------
(* MainWindow.save_to_board, run_board *)

\* if not self.modbus_controller: ... return
NotConnected == modbus_controller = None

\* [int(val) if val != '' else 0 for val in row.values]
ToInt(cell) == IF cell.k = "empty" THEN 0 ELSE cell.v

ConvertRaises(grid) ==
    \E r \in 1..Len(grid) : \E c \in 1..Len(grid[r]) : grid[r][c].k = "bad"

data_list(grid) == [r \in 1..Len(grid) |-> [c \in 1..Len(grid[r]) |-> ToInt(grid[r][c])]]

\* SaveNumberDialog: for i in range(1, 5)
SaveNumbers == SAVE_NUMBER_FIRST..SAVE_NUMBER_LAST

SaveNotConnected ==
    /\ Dispatch("save_to_board")
    /\ NotConnected
    /\ EndWithout("save", Head(queued).busy, "NotConnected")
    /\ UNCHANGED conn

\* The save-number dialog is rejected.
SaveCancel ==
    /\ Dispatch("save_to_board")
    /\ ~NotConnected
    /\ UNCHANGED <<conn, xfer>>

\* to_csv or int() raises before write_pattern_data is called.
SavePrepFail ==
    /\ Dispatch("save_to_board")
    /\ ~NotConnected
    /\ \E grid \in AppGrids, csv_ok \in BOOLEAN :
          /\ ~csv_ok \/ ConvertRaises(grid)
          /\ EndWithout("save", Head(queued).busy, "error")
    /\ UNCHANGED conn

SaveBegin ==
    /\ Dispatch("save_to_board")
    /\ ~NotConnected
    /\ \E grid \in AppGrids, selected_number \in SaveNumbers :
          /\ ~ConvertRaises(grid)
          /\ BeginTransfer("save", Head(queued).busy, selected_number, data_list(grid))
    /\ UNCHANGED conn

save_to_board == SaveNotConnected \/ SaveCancel \/ SavePrepFail \/ SaveBegin

RunNotConnected ==
    /\ Dispatch("run_board")
    /\ NotConnected
    /\ EndWithout("run", Head(queued).busy, "NotConnected")
    /\ UNCHANGED conn

RunPrepFail ==
    /\ Dispatch("run_board")
    /\ ~NotConnected
    /\ \E grid \in AppGrids, csv_ok \in BOOLEAN :
          /\ ~csv_ok \/ ConvertRaises(grid)
          /\ EndWithout("run", Head(queued).busy, "error")
    /\ UNCHANGED conn

RunBegin ==
    /\ Dispatch("run_board")
    /\ ~NotConnected
    /\ \E grid \in AppGrids :
          /\ ~ConvertRaises(grid)
          /\ BeginTransfer("run", Head(queued).busy, RUN_LOCATION, data_list(grid))
    /\ UNCHANGED conn

run_board == RunNotConnected \/ RunPrepFail \/ RunBegin

----------------------------------------------------------------------------
(* A direct caller of ModbusController.write_pattern_data *)

ApiStore ==
    /\ phase = "none"
    /\ \E slot \in CtlSlots, pat \in CtlPatterns : BeginTransfer("api", FALSE, slot, pat)
    /\ UNCHANGED <<conn, queued>>

\* The caller has the return value or the exception, and may call again.
ApiReturn ==
    /\ phase \in {"done", "failed"}
    /\ EndWithout("none", FALSE, "none")
    /\ UNCHANGED <<conn, queued>>

----------------------------------------------------------------------------
(* ModbusController.start_pattern, stop_pattern, called directly *)

PatternNumbers == 0..MaxPatternNumber

ControlPhases == {"number", "start", "stop"}

\* Variant: the start command is sent before the pattern number.
ControlWriteStartFirst ==
    CASE phase = "number" ->
            [addr |-> RUN_COMMAND_REGISTER, val |-> 1, delay |-> 0]
      [] phase = "start" ->
            [addr |-> PATTERN_NUMBER_REGISTER, val |-> pattern_number, delay |-> 0]
      [] OTHER ->
            [addr |-> RUN_COMMAND_REGISTER, val |-> 0, delay |-> 0]

\* Variant: stop clears the pattern number instead of the run command.
ControlWriteStopClearsNumber ==
    CASE phase = "number" ->
            [addr |-> PATTERN_NUMBER_REGISTER, val |-> pattern_number, delay |-> 0]
      [] phase = "start" ->
            [addr |-> RUN_COMMAND_REGISTER, val |-> 1, delay |-> 0]
      [] OTHER ->
            [addr |-> PATTERN_NUMBER_REGISTER, val |-> 0, delay |-> 0]

\* The register write start_pattern or stop_pattern is about to issue; no
\* sleep follows it.
ControlWrite ==
    CASE phase = "number" ->
            [addr |-> PATTERN_NUMBER_REGISTER, val |-> pattern_number, delay |-> 0]
      [] phase = "start" ->
            [addr |-> RUN_COMMAND_REGISTER, val |-> 1, delay |-> 0]
      [] OTHER ->
            [addr |-> RUN_COMMAND_REGISTER, val |-> 0, delay |-> 0]

\* start_pattern(n) is entered.
ApiStart ==
    /\ phase = "none"
    /\ \E n \in PatternNumbers : pattern_number' = n
    /\ caller' = "start"
    /\ Goto("number", 0, 0)
    /\ wire' = << >>
    /\ result' = "pending"
    /\ UNCHANGED <<conn, queued, deferred, save_location, pattern_data>>

\* stop_pattern() is entered.
ApiStop ==
    /\ phase = "none"
    /\ caller' = "stop"
    /\ Goto("stop", 0, 0)
    /\ wire' = << >>
    /\ result' = "pending"
    /\ UNCHANGED <<conn, queued, deferred, save_location, pattern_data, pattern_number>>

\* After the pattern number the start command; after the start or the stop
\* command return True.
ControlAdvance ==
    IF phase = "number"
    THEN Goto("start", 0, 0) /\ result' = result
    ELSE ReturnTrue

\* write_register returned.
ControlOk ==
    /\ phase \in ControlPhases
    /\ wire' = Append(wire, Issued(ControlWrite, TRUE))
    /\ ControlAdvance
    /\ UNCHANGED <<conn, queued, caller, deferred, save_location, pattern_data, pattern_number>>

\* write_register raised: except Exception: raise Exception(...).
ControlFail ==
    /\ phase \in ControlPhases
    /\ wire' = Append(wire, Issued(ControlWrite, FALSE))
    /\ OnWriteError
    /\ UNCHANGED <<queued, caller, deferred, save_location, pattern_data, pattern_number>>

----------------------------------------------------------------------------
(* Specifications *)

NoTransfer ==
    /\ caller = "none"
    /\ deferred = FALSE
    /\ save_location = 0
    /\ pattern_data = << >>
    /\ pattern_number = 0
    /\ phase = "none"
    /\ row_idx = 0
    /\ col_idx = 0
    /\ wire = << >>
    /\ result = "none"

\* MainWindow.__init__
Init ==
    /\ button_text = ConnectText
    /\ serial_port = None
    /\ modbus_controller = None
    /\ open_handles = {}
    /\ next_handle = 1
    /\ close_calls = << >>
    /\ closed = FALSE
    /\ queued = << >>
    /\ NoTransfer

\* ModbusController.__init__ on an opened port
InitCtl ==
    /\ button_text = DisconnectText
    /\ serial_port = 1
    /\ modbus_controller = 1
    /\ open_handles = {1}
    /\ next_handle = 2
    /\ close_calls = <<0>>
    /\ closed = FALSE
    /\ queued = << >>
    /\ NoTransfer

Next ==
    \/ Click
    \/ ConnectCancel
    \/ ConnectOk
    \/ ConnectFail
    \/ Disconnect
    \/ closeEvent
    \/ SaveNotConnected
    \/ SaveCancel
    \/ SavePrepFail
    \/ SaveBegin
    \/ RunNotConnected
    \/ RunPrepFail
    \/ RunBegin
    \/ WriteOk
    \/ WriteFail

NextCtl == ApiStore \/ ApiReturn \/ WriteOk \/ WriteFail

Spec == Init /\ [][Next]_vars

SpecCtl == InitCtl /\ [][NextCtl]_vars

\* Every method of ModbusController, called directly.
NextBoard ==
    \/ ApiStore
    \/ ApiStart
    \/ ApiStop
    \/ ApiReturn
    \/ WriteOk
    \/ WriteFail
    \/ ControlOk
    \/ ControlFail

SpecBoard == InitCtl /\ [][NextBoard]_vars

\* write_register returns or raises within the serial timeout.
FairSpec == Spec /\ WF_vars(WriteOk \/ WriteFail)

----------------------------------------------------------------------------
(* Vocabulary of the properties *)

\* Every row is as long as the first.
IsUniform(p) == \A r \in 1..Len(p) : Len(p[r]) = Len(p[1])

Width(p) == IF Len(p) = 0 THEN 0 ELSE Len(p[1])

NumCells(p) == Len(p) * Width(p)

\* The write sequence of a transfer of a uniform pattern: location, row
\* count, the cells in row-major order from address 2, and the run trigger
\* for slot 0.
ExpectedWrites(slot, p) ==
    LET W == Width(p) IN
    <<[addr |-> 0, val |-> slot], [addr |-> 1, val |-> Len(p)]>>
      \o [i \in 1..NumCells(p) |->
            [addr |-> 2 + (i - 1), val |-> p[((i - 1) \div W) + 1][((i - 1) % W) + 1]]]
      \o (IF slot = 0 THEN <<[addr |-> 1000, val |-> 1]>> ELSE << >>)

WriteOf(e) == [addr |-> e.addr, val |-> e.val]

\* The positions of the log that wrote register a.
WritesTo(w, a) == {i \in 1..Len(w) : w[i].addr = a}

\* The register map after replaying the log in order: the last write wins.
Replayed(w, a) ==
    LET I == WritesTo(w, a) IN
    w[CHOOSE i \in I : \A j \in I : j <= i].val

----------------------------------------------------------------------------
(* C1 *)

\* C1: a successful transfer of a uniform pattern of R rows and width W
\* (R = 0 included) has issued exactly 2 + R*W writes for slot # 0 and
\* 3 + R*W for slot 0, and the write for cell (r, c) went to address
\* 2 + r*W + c with that cell's value.
C1_StoreWriteCount ==
    (phase = "done" /\ IsUniform(pattern_data)) =>
        LET R == Len(pattern_data)
            W == Width(pattern_data)
        IN  /\ Len(wire) = (IF save_location = 0 THEN 3 ELSE 2) + R * W
            /\ \A i \in 1..Len(wire) : wire[i].ok
            /\ \A r \in 0..(R - 1) : \A c \in 0..(W - 1) :
                  /\ wire[3 + r * W + c].addr = 2 + r * W + c
                  /\ wire[3 + r * W + c].val = pattern_data[r + 1][c + 1]

C1_Witness ==
    /\ phase = "done"
    /\ IsUniform(pattern_data)
    /\ Len(pattern_data) = 3
    /\ Width(pattern_data) = 2
    /\ save_location = 0
    /\ Len(wire) = 9

----------------------------------------------------------------------------
(* C2 *)

\* C2: register 1000 is written, with value 1, if and only if the slot is 0;
\* a write to register 1000 comes only after every data write, as the last
\* write of the sequence; for a slot other than 0 no write goes to register
\* 1000.
C2_RunTriggerIffSlotZero ==
    /\ \A i \in 1..Len(wire) :
          wire[i].addr = 1000 =>
              /\ save_location = 0
              /\ wire[i].val = 1
              /\ phase \in {"done", "failed"}
              /\ i = Len(wire)
    /\ (phase = "done" /\ save_location = 0) => WritesTo(wire, 1000) # {}

----------------------------------------------------------------------------
(* C3 *)

\* Positions 3.. of the log that hold data-region writes (all but a final
\* run trigger).
DataPositions ==
    {i \in 3..Len(wire) : ~(phase \in {"done", "failed"} /\ save_location = 0
                             /\ i = Len(wire) /\ wire[i].addr = 1000
                             /\ i = 3 + NumCells(pattern_data))}

\* C3: in every transfer the first write is (0x0, slot), the second is
\* (0x1, row count), the data-region writes follow in strictly increasing
\* address order, and a write is issued only after every earlier one has
\* returned.
C3_WriteOrder ==
    /\ Len(wire) >= 1 => WriteOf(wire[1]) = [addr |-> 0, val |-> save_location]
    /\ Len(wire) >= 2 => WriteOf(wire[2]) = [addr |-> 1, val |-> Len(pattern_data)]
    /\ \A i \in DataPositions :
          (i + 1) \in DataPositions => wire[i].addr < wire[i + 1].addr
    /\ \A i \in 1..(Len(wire) - 1) : wire[i].ok

----------------------------------------------------------------------------
(* C8 *)

\* C8: for a pattern with a row whose length differs from the first row's,
\* the transfer fails and no register write is issued.
C8_RaggedRejected ==
    ~IsUniform(pattern_data) => (wire = << >> /\ result # "ok")

----------------------------------------------------------------------------
(* C9 *)

\* C9: for a slot outside 0..4 the transfer is rejected and no register
\* write is issued.
C9_SlotRangeRejected ==
    save_location \notin 0..4 => (wire = << >> /\ result # "ok")

----------------------------------------------------------------------------
(* C10 *)

\* C10: after a complete transfer of a uniform pattern, replaying the log
\* into a register map gives the slot at 0x0, the row count at 0x1 and cell
\* (r, c) at address 2 + r*W + c.
C10_RoundTrip ==
    (phase = "done" /\ IsUniform(pattern_data)) =>
        LET W == Width(pattern_data) IN
        /\ Replayed(wire, 0) = save_location
        /\ Replayed(wire, 1) = Len(pattern_data)
        /\ \A r \in 0..(Len(pattern_data) - 1) : \A c \in 0..(W - 1) :
              Replayed(wire, 2 + r * W + c) = pattern_data[r + 1][c + 1]

----------------------------------------------------------------------------
(* C4 *)

\* C4: when the k-th write of a transfer fails, the transfer ends there: the
\* log holds the first k - 1 writes of the sequence, all returned, and the
\* failed k-th write once, as its last entry (no retry, no later write, no
\* run trigger after it, no compensating write), and the caller is told of
\* the failure; as long as a transfer is still writing, no write has failed.
C4_FailFast ==
    /\ Busy => \A i \in 1..Len(wire) : wire[i].ok
    /\ phase = "failed" =>
          LET k == Len(wire)
              expected == ExpectedWrites(save_location, pattern_data)
          IN  /\ result = "error"
              /\ k >= 1
              /\ k <= Len(expected)
              /\ ~wire[k].ok
              /\ \A i \in 1..(k - 1) : wire[i].ok
              /\ \A i \in 1..k : WriteOf(wire[i]) = expected[i]

\* A run-board transfer whose fifth write (a data write) failed.
C4_Witness ==
    /\ phase = "failed"
    /\ caller = "run"
    /\ Len(wire) = 5
    /\ ~wire[5].ok
    /\ result = "error"

----------------------------------------------------------------------------
(* C5 *)

\* The link is down: the connect button reads "connect" (at start, after a
\* failed connect, after a disconnect).
Disconnected == button_text = ConnectText

\* C5: a save-to-board or run-board request handled while the link is down
\* reports "not connected", starts no transfer and issues no register write.
C5_NotConnectedNoWrites ==
    [][\A k \in {"save_to_board", "run_board"} :
          (Dispatch(k) /\ Disconnected) =>
              (phase' = "none" /\ wire' = << >> /\ result' = "NotConnected")]_vars

\* A run-board request was refused after a connect, a disconnect and a
\* failed or cancelled reconnect.
C5_Witness ==
    /\ result = "NotConnected"
    /\ caller = "run"
    /\ wire = << >>
    /\ next_handle > 1
    /\ serial_port = None
    /\ Disconnected

----------------------------------------------------------------------------
(* C6 *)

----------------------------------------------------------------------------
(* C7 *)

\* C7: every transfer that has started ends, and the step that ends it, in
\* success or in a failure at any write, leaves the link up (the controller
\* is kept, the button reads "disconnect"), so a further request is accepted.
C7_BusyReleased ==
    /\ Busy ~> ~Busy
    /\ [][(Busy /\ ~Busy') =>
              /\ phase' \in {"done", "failed"}
              /\ modbus_controller' = modbus_controller
              /\ modbus_controller' # None
              /\ button_text' = DisconnectText]_vars
    /\ [][\A k \in {"save_to_board", "run_board"} :
              (Dispatch(k) /\ phase \in {"done", "failed"} /\ ~Disconnected) =>
                  (result' # "NotConnected" /\ (Busy' => wire' = << >>))]_vars

\* A save request clicked during a transfer was accepted once that transfer
\* had ended and has completed its own writes.
C7_Witness ==
    /\ deferred
    /\ caller = "save"
    /\ phase = "done"
    /\ result = "ok"
    /\ Len(wire) = 2 + NumColumns

----------------------------------------------------------------------------
(* C11 *)

\* C11: start_pattern(p) issues (0x2000, p) first and (0x2001, 1) second and
\* nothing else: a completed call has exactly these two writes, the start
\* command is never in the log without a returned pattern-number write
\* before it, and a call whose pattern-number write failed has that one
\* write only.
C11_RunPatternOrder ==
    caller = "start" =>
        /\ Len(wire) <= 2
        /\ Len(wire) >= 1 => WriteOf(wire[1]) = [addr |-> 8192, val |-> pattern_number]
        /\ Len(wire) = 2 =>
              (wire[1].ok /\ WriteOf(wire[2]) = [addr |-> 8193, val |-> 1])
        /\ phase = "done" => (Len(wire) = 2 /\ wire[2].ok)
        /\ (Len(wire) >= 1 /\ ~wire[1].ok) => (Len(wire) = 1 /\ phase = "failed")

\* start_pattern(5) has returned True.
C11_Witness ==
    /\ caller = "start"
    /\ pattern_number = 5
    /\ phase = "done"
    /\ Len(wire) = 2

----------------------------------------------------------------------------
(* C12 *)

\* The registers the claim names, besides 0x2001.
OtherRegisters == {0, 1, 2, 3, 1000, 8192}

\* A register map after the writes of the log that returned, from map m.
BoardAfter(m, w) ==
    [a \in DOMAIN m |-> IF \E i \in 1..Len(w) : w[i].ok /\ w[i].addr = a
                        THEN Replayed(SelectSeq(w, LAMBDA e : e.ok), a)
                        ELSE m[a]]

\* A board on which a pattern is stored and running.
SampleBoard == [a \in OtherRegisters \cup {8193} |-> IF a = 8193 THEN 1 ELSE a + 7]

\* C12: stop_pattern issues exactly one write, (0x2001, 0): a completed call
\* has this write only, no call writes any other register, and a board's
\* other registers read after the call what they read before it.
C12_StopPatternFrame ==
    caller = "stop" =>
        /\ Len(wire) <= 1
        /\ \A i \in 1..Len(wire) : WriteOf(wire[i]) = [addr |-> 8193, val |-> 0]
        /\ phase = "done" =>
              /\ Len(wire) = 1
              /\ wire[1].ok
              /\ BoardAfter(SampleBoard, wire)[8193] = 0
        /\ \A a \in OtherRegisters : BoardAfter(SampleBoard, wire)[a] = SampleBoard[a]

\* stop_pattern() has returned True.
C12_Witness ==
    /\ caller = "stop"
    /\ phase = "done"
    /\ wire # << >>
    /\ result = "ok"

----------------------------------------------------------------------------
(* C13 *)

----------------------------------------------------------------------------
(* C14 *)

\* C14: no handle has close() called on it twice, and a shutdown while the
\* link is down (after a disconnect or a failed connect) calls no close(),
\* leaves the link down and the handles as they were.
C14_DisconnectIdempotent ==
    /\ [](\A h \in 1..Len(close_calls) : close_calls[h] <= 1)
    /\ [][(Disconnected /\ closed' # closed) =>
              /\ close_calls' = close_calls
              /\ open_handles' = open_handles
              /\ button_text' = ConnectText
              /\ modbus_controller' = None
              /\ xfer' = xfer]_vars

\* The window was closed after a disconnect: the handle was closed once.
C14_Witness ==
    /\ closed
    /\ Disconnected
    /\ close_calls = <<1>>
    /\ open_handles = {}

----------------------------------------------------------------------------
(* C15 *)

\* The write at position i of the log is the run trigger that ends a
\* location-0 transfer.
IsTriggerWrite(i) == TriggersRun /\ phase = "done" /\ i = Len(wire)

\* C15: in write_pattern_data every write that returned and is not the
\* closing run trigger was followed by a sleep before anything else was
\* written: HEADER_SETTLE_MS after the location and the row count,
\* DATA_SETTLE_MS after each data cell, the last cell included.
C15_SettleDelays ==
    caller = "api" =>
        \A i \in 1..Len(wire) :
            /\ i < Len(wire) => wire[i].ok /\ wire[i].delay > 0
            /\ (wire[i].ok /\ ~IsTriggerWrite(i)) =>
                   wire[i].delay = IF i <= 2 THEN HEADER_SETTLE_MS ELSE DATA_SETTLE_MS

\* A location-0 transfer of a full MaxRows x MaxWidth pattern has ended with
\* the run trigger.
C15_Witness ==
    /\ caller = "api"
    /\ save_location = 0
    /\ phase = "done"
    /\ IsUniform(pattern_data)
    /\ Len(wire) = 2 + MaxRows * MaxWidth + 1
    /\ wire[Len(wire) - 1].delay = DATA_SETTLE_MS

----------------------------------------------------------------------------
(* C16 *)

\* The registers that start or stop execution.
ControlRegisters == {RUN_TRIGGER_REGISTER, PATTERN_NUMBER_REGISTER, RUN_COMMAND_REGISTER}

\* C16: the address write_pattern_data computes for a data cell is never
\* the run trigger register nor a register of start_pattern/stop_pattern.
C16_DataAvoidsControlRegisters ==
    (caller = "api" /\ phase = "data") => register_address \notin ControlRegisters

----------------------------------------------------------------------------
(* C17 *)

Word16 == 0..65535

\* C17: every write handed to write_register by write_pattern_data,
\* start_pattern and stop_pattern has its address and its value in Word16.
C17_WritesAre16Bit ==
    wire # << >> =>
        /\ wire[Len(wire)].addr \in Word16
        /\ wire[Len(wire)].val \in Word16

----------------------------------------------------------------------------
(* C18 *)

\* self.df after a file of LongRows rows was read, or after LongRows rows
\* were added and filled in: every cell holds 1.
LongGrid == [r \in 1..LongRows |-> [c \in 1..NumColumns |-> IntCell(1)]]

\* save_to_board with that table.
SaveLongTable ==
    /\ Dispatch("save_to_board")
    /\ ~NotConnected
    /\ \E selected_number \in SaveNumbers :
          BeginTransfer("save", Head(queued).busy, selected_number, data_list(LongGrid))
    /\ UNCHANGED conn

\* run_board with that table.
RunLongTable ==
    /\ Dispatch("run_board")
    /\ ~NotConnected
    /\ BeginTransfer("run", Head(queued).busy, RUN_LOCATION, data_list(LongGrid))
    /\ UNCHANGED conn

\* The window is connected and one click on "Save to Board" or "Run Board"
\* waits in the event queue.
InitTable ==
    /\ button_text = DisconnectText
    /\ serial_port = 1
    /\ modbus_controller = 1
    /\ open_handles = {1}
    /\ next_handle = 2
    /\ close_calls = <<0>>
    /\ closed = FALSE
    /\ queued \in {<<[kind |-> k, busy |-> FALSE]>> : k \in {"save_to_board", "run_board"}}
    /\ NoTransfer

NextTable == SaveLongTable \/ RunLongTable \/ WriteOk \/ WriteFail

SpecTable == InitTable /\ [][NextTable]_vars

\* C18: a transfer started by save_to_board has a location in SaveNumbers,
\* one started by run_board has RUN_LOCATION, and the write (1000, 1) is
\* issued only in a transfer started by run_board.
C18_RunTriggerOnlyFromRun ==
    /\ (caller = "save" /\ phase # "none") => save_location \in SaveNumbers
    /\ (caller = "run" /\ phase # "none") => save_location = RUN_LOCATION
    /\ (caller = "save" /\ wire # << >>) =>
           ~(/\ wire[Len(wire)].addr = RUN_TRIGGER_REGISTER
             /\ wire[Len(wire)].val = 1)

====
